---- MODULE Spec2Model ----
(***************************************************************************)
(* Model of the press-release dashboard (app.py, data_processor.py,       *)
(* filters.py): the entity splitter, the weekly bucketing, the date/title  *)
(* filter, the trend aggregation with its top-10 ranking, and the column   *)
(* checks of DataProcessor and DataFilterManager.                          *)
(*                                                                         *)
(* Text is a sequence of one-character strings.  A calendar date is the    *)
(* number of days since Monday 2024-01-01; a pandas Timestamp is such a    *)
(* day number with a time of day.                                          *)
(***************************************************************************)
EXTENDS Integers, Sequences, FiniteSets, TLC

\* sheet: the rows of the remote worksheet "DATASET SP"
\* df:    the rows of the table in memory (main's df_sp)
\* op:    the operation that ran last, and with it main's position;
\*        "load_failed" when load_dataset returned pd.DataFrame(), the table
\*        without rows and without columns
\* arg:   the arguments of that operation
\* ret:   what it returned or rendered
\* cache: the entries of the two lru_caches of data_processor.py
VARIABLES sheet, df, op, arg, ret, cache

vars == <<sheet, df, op, arg, ret, cache>>

\* ------------------------------------------------------------------ bounds
\* Longest entity text the splitter is applied to.
MaxLen == 4
\* Last day number (days since 2024-01-01) the bucketing is applied to.
MaxDay == 430
\* Most rows of the worksheet.
MaxRows == 2

\* ------------------------------------------------------------------ text
Chars == {"A", "a", " ", ";", "#"}

\* A null cell (None / NaN) of an object column.
Null == <<"\\N">>

Strings(n) == UNION {[1..k -> Chars] : k \in 0..n}

isna(value) == value = Null

\* str.find(sep) from position i on, 0 when sep does not occur.
RECURSIVE find(_, _, _)
find(s, sep, i) ==
  IF i > Len(s) THEN 0 ELSE IF s[i] = sep THEN i ELSE find(s, sep, i + 1)

\* str.split(sep) with a one-character separator: "" -> [""].
RECURSIVE split(_, _)
split(s, sep) ==
  LET i == find(s, sep, 1)
  IN IF i = 0 THEN <<s>>
     ELSE <<SubSeq(s, 1, i - 1)>> \o split(SubSeq(s, i + 1, Len(s)), sep)

\* str.lstrip() in place of str.strip().
RECURSIVE lstrip_only(_)
lstrip_only(s) == IF s # <<>> /\ Head(s) = " " THEN lstrip_only(Tail(s)) ELSE s

\* str.strip(): leading and trailing white space removed.
RECURSIVE strip(_)
strip(s) ==
  IF s = <<>> THEN s
  ELSE IF Head(s) = " " THEN strip(Tail(s))
  ELSE IF s[Len(s)] = " " THEN strip(SubSeq(s, 1, Len(s) - 1))
  ELSE s

\* '##' in entity
HasMarker(s) == \E i \in 1..(Len(s) - 1) : s[i] = "#" /\ s[i + 1] = "#"

\* app.py 105-113: the loop that splits one row's entity cell.
RECURSIVE StripKeep(_)
StripKeep(pieces) ==
  IF pieces = <<>> THEN <<>>
  ELSE LET entity == strip(Head(pieces))
       IN (IF entity # <<>> THEN <<entity>> ELSE <<>>) \o StripKeep(Tail(pieces))

row_entities(cell) == IF ~isna(cell) THEN StripKeep(split(cell, ";")) ELSE <<>>

\* data_processor.py 30-43
RECURSIVE StripAll(_)
StripAll(pieces) ==
  IF pieces = <<>> THEN <<>> ELSE <<strip(Head(pieces))>> \o StripAll(Tail(pieces))

RECURSIVE FilterEntities(_)
FilterEntities(entities) ==
  IF entities = <<>> THEN <<>>
  ELSE (IF Head(entities) # <<>> /\ ~HasMarker(Head(entities))
        THEN <<Head(entities)>> ELSE <<>>) \o FilterEntities(Tail(entities))

split_and_clean(value, separator) ==
  IF isna(value) THEN <<>> ELSE FilterEntities(StripAll(split(value, separator)))

\* ------------------------------------------------------------------ calendar
IsLeap(y) == (y % 4 = 0 /\ y % 100 # 0) \/ y % 400 = 0

DaysInYear(y) == IF IsLeap(y) THEN 366 ELSE 365

DaysInMonth(y, m) ==
  IF m = 2 THEN (IF IsLeap(y) THEN 29 ELSE 28)
  ELSE IF m \in {4, 6, 9, 11} THEN 30 ELSE 31

\* Year, month and day of month of a day number.
RECURSIVE YearFrom(_, _)
YearFrom(n, y) ==
  IF n < DaysInYear(y) THEN [y |-> y, n |-> n] ELSE YearFrom(n - DaysInYear(y), y + 1)

RECURSIVE MonthFrom(_, _, _)
MonthFrom(n, y, m) ==
  IF n < DaysInMonth(y, m) THEN [y |-> y, m |-> m, d |-> n + 1]
  ELSE MonthFrom(n - DaysInMonth(y, m), y, m + 1)

YMD(day) == LET yr == YearFrom(day, 2024) IN MonthFrom(yr.n, yr.y, 1)

\* Timestamp and NaT
Ts(day, tod) == [dtype |-> "ts", day |-> day, tod |-> tod]
NaT == [dtype |-> "NaT", day |-> 0 - 1, tod |-> 0]

\* A date cell as the worksheet gives it: the text "y-m-d" with an hour.
Str(y, m, d, tod) == [dtype |-> "str", y |-> y, m |-> m, d |-> d, tod |-> tod]

\* Days from 2024-01-01 to the first day of year y, and of month m in y.
RECURSIVE DaysBeforeYear(_)
DaysBeforeYear(y) == IF y <= 2024 THEN 0 ELSE DaysBeforeYear(y - 1) + DaysInYear(y - 1)

RECURSIVE DaysBeforeMonth(_, _)
DaysBeforeMonth(y, m) ==
  IF m <= 1 THEN 0 ELSE DaysBeforeMonth(y, m - 1) + DaysInMonth(y, m - 1)

\* pd.to_datetime(..., errors='coerce') of one cell: text that is no date
\* becomes NaT, a null cell is NaT, a Timestamp stays as it is.
to_datetime(cell) ==
  IF cell.dtype # "str" THEN cell
  ELSE IF cell.y >= 2024 /\ cell.m \in 1..12 /\ cell.d \in 1..DaysInMonth(cell.y, cell.m)
       THEN Ts(DaysBeforeYear(cell.y) + DaysBeforeMonth(cell.y, cell.m) + cell.d - 1, cell.tod)
       ELSE NaT

\* Timestamp.weekday(): Monday is 0; day 0 is a Monday.
weekday(date) == date.day % 7

\* Timestamp - pd.Timedelta(days=n), Timestamp + pd.Timedelta(days=n)
MinusDays(date, n) == Ts(date.day - n, date.tod)
PlusDays(date, n) == Ts(date.day + n, date.tod)

\* A week that starts on Sunday.
get_week_start_sunday(date) == MinusDays(date, (weekday(date) + 1) % 7)

\* app.py 123-124
get_week_start(date) == MinusDays(date, weekday(date))

MonthName(m) ==
  <<"January", "February", "March", "April", "May", "June", "July",
    "August", "September", "October", "November", "December">>[m]

Digit(k) == <<"0", "1", "2", "3", "4", "5", "6", "7", "8", "9">>[k + 1]

\* The decimal text of a natural number, as an f-string writes it.
RECURSIVE Decimal(_)
Decimal(n) == IF n < 10 THEN <<Digit(n)>> ELSE Decimal(n \div 10) \o <<Digit(n % 10)>>

\* The label written with the month and year of the week's last day.
get_week_range_of_end(week_start) ==
  LET end == PlusDays(week_start, 6)
  IN Decimal(YMD(week_start.day).d) \o <<"-">> \o Decimal(YMD(end.day).d) \o <<" ">>
       \o <<MonthName(YMD(end.day).m)>> \o <<" ">> \o Decimal(YMD(end.day).y)

\* app.py 132-134
get_week_range(week_start) ==
  LET end == PlusDays(week_start, 6)
  IN Decimal(YMD(week_start.day).d) \o <<"-">> \o Decimal(YMD(end.day).d) \o <<" ">>
       \o <<MonthName(YMD(week_start.day).m)>> \o <<" ">> \o Decimal(YMD(week_start.day).y)

\* ------------------------------------------------------------------ table
\* The entry of the title selector that stands for every press release.
Semua == <<"Semua Siaran Pers">>
\* selected_sp=None, the default of create_sources_trend_analysis.
None == <<"\\None">>

Titles == {<<"T", "1">>, <<"T", "2">>}

\* An entity cell with eleven names, the n-th of them n times:
\* "A;B;B;C;C;C;...".
Names == <<"A", "B", "C", "D", "E", "F", "G", "H", "I", "J", "K">>

RECURSIVE Times(_, _)
Times(name, n) == IF n = 0 THEN <<>> ELSE <<name, ";">> \o Times(name, n - 1)

RECURSIVE ManyNames(_)
ManyNames(i) == IF i > Len(Names) THEN <<>> ELSE Times(Names[i], i) \o ManyNames(i + 1)

\* Entity cells: none, a blank one, two names, a name twice around an empty
\* piece.
EntityCells == {Null, <<" ", ";">>, <<"B", ";", "A">>, <<" ", "A", ";", ";", "A">>}

\* Date cells: a null cell, empty text, a Monday, a Wednesday with an hour,
\* the next Monday.
DateCells ==
  {NaT, Str(0, 0, 0, 0), Str(2024, 1, 1, 0), Str(2024, 1, 3, 1), Str(2024, 1, 8, 0)}

\* df.columns: title (columns[0]), narasumber (columns[3]), publikasi (columns[4]).
Columns == {"title", "narasumber", "publikasi"}

Rows == [title : Titles, narasumber : EntityCells, publikasi : DateCells]

Sheets == UNION {[1..n -> Rows] : n \in 0..MaxRows}

\* df[date_col] = pd.to_datetime(df[date_col], errors='coerce')
to_datetime_col(d) == [i \in DOMAIN d |-> [d[i] EXCEPT !.publikasi = to_datetime(@)]]

NotNaT(row) == row.publikasi.dtype # "NaT"

\* df.dropna(subset=[date_col]) of a converted table
dropna(d) == SelectSeq(d, NotNaT)

\* df[date_col].min().date(), .max().date(): NaT is skipped.
ColumnDays(d) == {d[i].publikasi.day : i \in {j \in DOMAIN d : d[j].publikasi.dtype = "ts"}}

\* ------------------------------------------------------------------ filter
\* The upper end of the range taken as the midnight that starts end_date.
filter_dataframe_midnight(d, selected_title, start_date, end_date) ==
  LET conv == to_datetime_col(d)
      InRange(row) ==
        /\ row.publikasi.dtype = "ts"
        /\ row.publikasi.day >= start_date
        /\ \/ row.publikasi.day < end_date
           \/ row.publikasi.day = end_date /\ row.publikasi.tod = 0
      Titled(row) == row.title = selected_title
      df_filtered == SelectSeq(conv, InRange)
  IN [df |-> conv,
      out |-> IF selected_title = Semua THEN df_filtered
              ELSE SelectSeq(df_filtered, Titled)]

\* The lower end of the range left out.
filter_dataframe_after_start(d, selected_title, start_date, end_date) ==
  LET conv == to_datetime_col(d)
      InRange(row) ==
        /\ row.publikasi.dtype = "ts"
        /\ row.publikasi.day > start_date
        /\ row.publikasi.day <= end_date
      Titled(row) == row.title = selected_title
      df_filtered == SelectSeq(conv, InRange)
  IN [df |-> conv,
      out |-> IF selected_title = Semua THEN df_filtered
              ELSE SelectSeq(df_filtered, Titled)]

\* A row without a date let through.
filter_dataframe_keep_nat(d, selected_title, start_date, end_date) ==
  LET conv == to_datetime_col(d)
      InRange(row) ==
        \/ row.publikasi.dtype # "ts"
        \/ /\ row.publikasi.day >= start_date
           /\ row.publikasi.day <= end_date
      Titled(row) == row.title = selected_title
      df_filtered == SelectSeq(conv, InRange)
  IN [df |-> conv,
      out |-> IF selected_title = Semua THEN df_filtered
              ELSE SelectSeq(df_filtered, Titled)]

\* app.py 63-80.  The date column of the caller's table is assigned in place;
\* a NaT compares false with every date.
filter_dataframe(d, selected_title, start_date, end_date) ==
  LET conv == to_datetime_col(d)
      InRange(row) ==
        /\ row.publikasi.dtype = "ts"
        /\ row.publikasi.day >= start_date
        /\ row.publikasi.day <= end_date
      Titled(row) == row.title = selected_title
      df_filtered == SelectSeq(conv, InRange)
  IN [df |-> conv,
      out |-> IF selected_title = Semua THEN df_filtered
              ELSE SelectSeq(df_filtered, Titled)]

\* ------------------------------------------------------------------ trend
\* app.py 102-113: one (Narasumber, Tanggal) pair per entity occurrence.
RECURSIVE all_entities_data(_)
all_entities_data(d) ==
  IF d = <<>> THEN <<>>
  ELSE LET entities == row_entities(Head(d).narasumber)
       IN [i \in 1..Len(entities) |->
             [Narasumber |-> entities[i], Tanggal |-> Head(d).publikasi]]
          \o all_entities_data(Tail(d))

\* The groups counted once each instead of by their size.
weekly_counts_nunique(entities_df) ==
  {[Narasumber |-> entities_df[i].Narasumber,
    Minggu |-> get_week_start(entities_df[i].Tanggal),
    Frekuensi |-> 1,
    RentangMinggu |-> get_week_range(get_week_start(entities_df[i].Tanggal))]
     : i \in DOMAIN entities_df}

\* app.py 126-136: groupby(['Narasumber', 'Minggu']).size() with the label of
\* each week.  The rows are kept as a set.
weekly_counts(entities_df) ==
  LET keyed == [i \in DOMAIN entities_df |->
                  [Narasumber |-> entities_df[i].Narasumber,
                   Minggu |-> get_week_start(entities_df[i].Tanggal)]]
  IN {[Narasumber |-> k.Narasumber,
       Minggu |-> k.Minggu,
       Frekuensi |-> Cardinality({i \in DOMAIN keyed : keyed[i] = k}),
       RentangMinggu |-> get_week_range(k.Minggu)]
        : k \in {keyed[i] : i \in DOMAIN keyed}}

RECURSIVE SumFrekuensi(_)
SumFrekuensi(rows) ==
  IF rows = {} THEN 0
  ELSE LET r == CHOOSE x \in rows : TRUE IN r.Frekuensi + SumFrekuensi(rows \ {r})

\* weekly_counts.groupby('Narasumber')['Frekuensi'].sum()
narasumber_sums(weekly) ==
  {[Narasumber |-> n, Frekuensi |-> SumFrekuensi({r \in weekly : r.Narasumber = n})]
     : n \in {r.Narasumber : r \in weekly}}

\* The sums in ascending order.
RECURSIVE sort_values_ascending(_)
sort_values_ascending(sums) ==
  IF sums = {} THEN {<<>>}
  ELSE UNION {{<<x>> \o rest : rest \in sort_values_ascending(sums \ {x})}
                : x \in {y \in sums : \A z \in sums : y.Frekuensi <= z.Frekuensi}}

\* .sort_values(ascending=False): the default sort kind is not stable, so
\* entries with equal sums come in any order.  The set of possible results.
RECURSIVE sort_values_descending(_)
sort_values_descending(sums) ==
  IF sums = {} THEN {<<>>}
  ELSE UNION {{<<x>> \o rest : rest \in sort_values_descending(sums \ {x})}
                : x \in {y \in sums : \A z \in sums : y.Frekuensi >= z.Frekuensi}}

\* Series.head(n), nlargest's cut
head(series, n) == SubSeq(series, 1, IF n < Len(series) THEN n ELSE Len(series))

\* app.py 142: top_sources = narasumber_counts.head(10)
TopK == 10

Index(series) == {series[i].Narasumber : i \in DOMAIN series}

\* Every row plotted, whatever the top sources are.
plot_data_unrestricted(weekly, top_sources) == weekly

\* app.py 145-148
plot_data(weekly, top_sources) ==
  IF top_sources # <<>> THEN {r \in weekly : r.Narasumber \in Index(top_sources)}
  ELSE weekly

\* app.py 91
df_empty(d) == d = <<>>

\* app.py 116: if not all_entities_data
no_entities(data) == data = <<>>

Warning(message) == [status |-> "warning", message |-> message]

\* An exception that leaves the call, and a value returned.
Raised(error) == [status |-> error]
Returned(value) == [status |-> "returned", out |-> value]

\* app.py 138-162: the ranking, the plotted rows and the three metrics, for
\* one of the orders the sort can give.  top_sources.index[0] fails on an
\* empty ranking.
Rendered(records, weekly, narasumber_counts) ==
  LET top_sources == head(narasumber_counts, TopK)
  IN IF top_sources = <<>> THEN Raised("IndexError")
     ELSE [status |-> "rendered",
           records |-> records,
           weekly_counts |-> weekly,
           narasumber_counts |-> narasumber_counts,
           top_sources |-> top_sources,
           plot_data |-> plot_data(weekly, top_sources),
           total_siaran_pers |-> Len(records),
           total_narasumber |-> Len(narasumber_counts),
           narasumber_tersering |-> top_sources[1].Narasumber,
           narasumber_tersering_kali |-> top_sources[1].Frekuensi]

\* app.py 82-162: create_sources_trend_analysis(df, entity_col, date_col,
\* selected_sp), d the rows of df and columns its df.columns.  The set of
\* possible (caller's table, outcome) pairs.  df.columns[0] of line 88 fails
\* on a table without columns.
create_sources_trend_analysis(d, columns, selected_sp) ==
  LET Titled(row) == row.title = selected_sp
      selected == selected_sp # None /\ selected_sp # Semua
      local == IF selected THEN SelectSeq(d, Titled) ELSE d
      conv == to_datetime_col(local)
      \* the assignment of line 96 reaches the caller's table unless line 88
      \* made df a new table
      caller == IF selected THEN d ELSE conv
      records == dropna(conv)
      data == all_entities_data(records)
      weekly == weekly_counts(data)
  IN IF selected /\ columns = {}
     THEN {[df |-> d, out |-> Raised("IndexError")]}
     ELSE IF df_empty(local)
     THEN {[df |-> d, out |-> Warning("Tidak ada data untuk dianalisis")]}
     ELSE IF no_entities(data)
     THEN {[df |-> caller, out |-> Warning("Tidak ada narasumber yang ditemukan")]}
     ELSE {[df |-> caller, out |-> Rendered(records, weekly, counts)]
             : counts \in sort_values_descending(narasumber_sums(weekly))}

\* ------------------------------------------------------------------ program
\* No entry in the cache of process_column nor in that of
\* load_and_process_dataset.
NoCache == [process_column |-> {}, load_and_process_dataset |-> {}]

\* load_dataset("DATASET SP"): the rows of the worksheet under its headers,
\* or pd.DataFrame() when anything failed on the way.
Init ==
  /\ sheet \in Sheets
  /\ \/ op = "loaded" /\ df = sheet
     \/ op = "load_failed" /\ df = <<>>
  /\ arg = <<>>
  /\ ret = <<>>
  /\ cache = NoCache

\* df.columns of the table load_dataset returned.
df_columns == IF op = "load_failed" THEN {} ELSE Columns

\* filter_dataframe called on the loaded table.
CallFilter ==
  /\ op = "loaded"
  /\ \E selected_title \in Titles \cup {Semua}, start_date, end_date \in {0, 2, 7} :
       LET r == filter_dataframe(df, selected_title, start_date, end_date)
       IN /\ op' = "filter_dataframe"
          /\ arg' = [selected_title |-> selected_title,
                     start_date |-> start_date, end_date |-> end_date]
          /\ df' = r.df
          /\ ret' = r.out
  /\ UNCHANGED sheet
  /\ UNCHANGED cache

\* create_sources_trend_analysis called on the table load_dataset returned.
CallTrend ==
  /\ op \in {"loaded", "load_failed"}
  /\ \E selected_sp \in Titles \cup {Semua, None} :
       \E r \in create_sources_trend_analysis(df, df_columns, selected_sp) :
          /\ op' = "create_sources_trend_analysis"
          /\ arg' = [selected_sp |-> selected_sp, columns |-> df_columns]
          /\ df' = r.df
          /\ ret' = r.out
  /\ UNCHANGED sheet
  /\ UNCHANGED cache

\* app.py 212-214: main returns when both tables are empty.
MainReturn ==
  /\ op \in {"loaded", "load_failed"}
  /\ df = <<>>
  /\ op' = "returned"
  /\ UNCHANGED <<sheet, df, arg, ret>>
  /\ UNCHANGED cache

\* app.py 217: df_sp.columns[0] of a table without columns, the table of news
\* not being empty.
MainNoColumns ==
  /\ op = "load_failed"
  /\ op' = "IndexError"
  /\ UNCHANGED <<sheet, df, arg, ret>>
  /\ UNCHANGED cache

\* app.py 216-228: main converts the date column and stops when no date is
\* valid.
MainConvert ==
  /\ op = "loaded"
  /\ df' = to_datetime_col(df)
  /\ op' = IF \A i \in DOMAIN df' : df'[i].publikasi.dtype = "NaT"
           THEN "stopped" ELSE "converted"
  /\ UNCHANGED <<sheet, arg, ret>>
  /\ UNCHANGED cache

\* app.py 239-260: the selector's choices (a title of the table or "Semua
\* Siaran Pers"; two dates of the column, which lie between the least and
\* the greatest date the date inputs allow), the filtered table, and the
\* trend of df_sp, the table the filter was given.
MainTab1 ==
  /\ op = "converted"
  /\ \E selected_sp \in {df[i].title : i \in DOMAIN df} \cup {Semua} :
       LET df_sp == to_datetime_col(df)
           trends == create_sources_trend_analysis(df_sp, Columns, selected_sp)
       IN \E start_date, end_date \in ColumnDays(df_sp) :
            LET f == filter_dataframe(df_sp, selected_sp, start_date, end_date)
            IN \E t \in trends :
                 /\ f.df = df_sp
                 /\ op' = "tab1"
                 /\ arg' = [selected_sp |-> selected_sp,
                            start_date |-> start_date, end_date |-> end_date]
                 /\ df' = t.df
                 /\ ret' = [df_sp_filtered |-> f.out, trend |-> t.out]
  /\ UNCHANGED sheet
  /\ UNCHANGED cache

\* app.py 262-269: create_timeline_chart is not a name of app.py.
MainTimeline ==
  /\ op = "tab1"
  /\ op' = "NameError"
  /\ UNCHANGED <<sheet, df, arg, ret>>
  /\ UNCHANGED cache

\* Streamlit runs the script again: the table is loaded anew.
Rerun ==
  /\ op \in {"returned", "IndexError", "stopped", "NameError"}
  /\ \/ op' = "loaded" /\ df' = sheet
     \/ op' = "load_failed" /\ df' = <<>>
  /\ arg' = <<>>
  /\ ret' = <<>>
  /\ UNCHANGED sheet
  /\ UNCHANGED cache

Next ==
  \/ CallTrend
  \/ MainReturn
  \/ MainNoColumns
  \/ MainConvert
  \/ MainTab1
  \/ MainTimeline
  \/ Rerun

Spec == Init /\ [][Next]_vars

\* filter_dataframe alone, on every table and every choice of title and dates.
SpecFilter == Init /\ [][CallFilter]_vars

\* The filter and the trend, each called on the table load_dataset returned.
NextDates == CallFilter \/ CallTrend

SpecDates == Init /\ [][NextDates]_vars

\* ------------------------------------------------------------------ DataProcessor
\* data_processor.py 16-45
process_column(d, column_name, separator) ==
  IF column_name \notin Columns THEN Raised("ValueError")
  ELSE Returned([i \in DOMAIN d |-> split_and_clean(d[i][column_name], separator)])

\* functools.lru_cache: the entries are (key, value) pairs, at most one for a
\* key.  No entry is evicted: the keys of the model are fewer than maxsize.
cache_hit(entries, key) == \E e \in entries : e.key = key
cache_get(entries, key) == (CHOOSE e \in entries : e.key = key).value
cache_put(entries, key, value) == entries \cup {[key |-> key, value |-> value]}

\* data_processor.py 15-16: @lru_cache(maxsize=32) around process_column.
\* The key is (self, column_name, separator), self being one processor; a
\* call that raises leaves no entry.
process_column_cached(entries, d, column_name, separator) ==
  LET key == <<column_name, separator>>
      value == process_column(d, column_name, separator)
  IN IF cache_hit(entries, key)
     THEN [out |-> cache_get(entries, key), entries |-> entries]
     ELSE [out |-> value,
           entries |-> IF value.status = "returned"
                       THEN cache_put(entries, key, value) ELSE entries]

\* data_processor.py 68-72
RECURSIVE all_entities(_)
all_entities(series) ==
  IF series = <<>> THEN <<>> ELSE Head(series) \o all_entities(Tail(series))

\* pd.Series(all_entities).value_counts() before its sort
counts_of(entities) ==
  {[Narasumber |-> e, Frekuensi |-> Cardinality({i \in DOMAIN entities : entities[i] = e})]
     : e \in {entities[i] : i \in DOMAIN entities}}

\* data_processor.py 47-80: aggregate_entities(column_name, top_n, min_count).
\* value_counts sorts by count, descending, equal counts in any order;
\* nlargest keeps the first top_n of that order.  The set of possible results.
aggregate_entities(d, column_name, top_n, min_count) ==
  LET processed_series == process_column(d, column_name, ";")
      AtLeast(entry) == entry.Frekuensi >= min_count
  IN IF processed_series.status # "returned" THEN {processed_series}
     ELSE {Returned(head(SelectSeq(entity_counts, AtLeast), top_n))
             : entity_counts \in
                 sort_values_descending(counts_of(all_entities(processed_series.out)))}

\* ------------------------------------------------------------------ DataFilterManager
\* A filter value: a (start, end) tuple of dates or a list of cell values.
DateRange(column, start_date, end_date) ==
  [column |-> column, kind |-> "tuple", start_date |-> start_date,
   end_date |-> end_date, values |-> {}]
ValueList(column, values) ==
  [column |-> column, kind |-> "list", start_date |-> 0, end_date |-> 0,
   values |-> values]

\* .dt is there for a column of Timestamps only.
IsDatetimeColumn(d, column) ==
  column = "publikasi" /\ \A i \in DOMAIN d : d[i].publikasi.dtype # "str"

\* filters.py 88-100: one entry of the filters applied to the table so far.
apply_filter(filtered_df, entry) ==
  LET InRange(row) ==
        /\ row[entry.column].dtype = "ts"
        /\ row[entry.column].day >= entry.start_date
        /\ row[entry.column].day <= entry.end_date
      IsIn(row) == row[entry.column] \in entry.values
  IN IF filtered_df.status # "returned" THEN filtered_df
     ELSE IF entry.column \notin Columns THEN filtered_df
     ELSE IF entry.kind = "tuple"
     THEN (IF IsDatetimeColumn(filtered_df.out, entry.column)
           THEN Returned(SelectSeq(filtered_df.out, InRange))
           ELSE Raised("AttributeError"))
     ELSE Returned(SelectSeq(filtered_df.out, IsIn))

\* filters.py 76-102: apply_filters(filters) on original_df, the entries of
\* the dict in their order.
RECURSIVE apply_from(_, _)
apply_from(filtered_df, filters) ==
  IF filters = <<>> THEN filtered_df
  ELSE apply_from(apply_filter(filtered_df, Head(filters)), Tail(filters))

apply_filters(original_df, filters) == apply_from(Returned(original_df), filters)

\* filters.py 21: max_unique_values of create_dynamic_filters.
MaxUniqueValues == 20

\* filters.py 18-47 and 138-142: the filters of create_dynamic_filters with
\* every widget at its default: the whole range of a datetime column, every
\* value that is not null of a column of text.  A table without columns has
\* no filter.
create_dynamic_filters(original_df, columns, converted) ==
  LET Values(column) ==
        {original_df[i][column] : i \in DOMAIN original_df} \ {Null}
      Cells == {original_df[i].publikasi : i \in DOMAIN original_df} \ {NaT}
      days == ColumnDays(original_df)
      min_date == CHOOSE a \in days : \A b \in days : a <= b
      max_date == CHOOSE a \in days : \A b \in days : a >= b
      OfText(column) ==
        IF Cardinality(Values(column)) <= MaxUniqueValues
        THEN <<ValueList(column, Values(column))>> ELSE <<>>
      OfDate ==
        IF converted THEN <<DateRange("publikasi", min_date, max_date)>>
        ELSE IF Cardinality(Cells) <= MaxUniqueValues
        THEN <<ValueList("publikasi", Cells)>> ELSE <<>>
  IN IF columns = {} THEN <<>>
     ELSE OfText("title") \o OfText("narasumber") \o OfDate

\* filters.py 104-123: the share of the rows kept, in hundredths.
show_filter_summary(original_df, filtered_df) ==
  LET total_original == Len(original_df)
      total_filtered == Len(filtered_df)
  IN IF total_original = 0 THEN Raised("ZeroDivisionError")
     ELSE Returned([df |-> filtered_df,
                    percentage_filtered |->
                      (total_filtered * 100) \div total_original])

\* filters.py 125-152
create_advanced_filters(d, columns, converted) ==
  LET filters == create_dynamic_filters(d, columns, converted)
      filtered_df == apply_filters(d, filters)
  IN IF filtered_df.status # "returned" THEN filtered_df
     ELSE show_filter_summary(d, filtered_df.out)

\* ------------------------------------------------------------------ main
\* What load_dataset gave for a dataset: pd.DataFrame() when it failed, the
\* headers alone, or headers and rows.
LoadOutcomes == {"failed", "no_rows", "rows"}

\* The table of news: one row when it has rows.
df_berita(outcome) ==
  IF outcome = "rows"
  THEN <<[title |-> <<"T", "1">>, narasumber |-> <<"B", ";", "A">>,
          publikasi |-> Str(2024, 1, 1, 0)]>>
  ELSE <<>>

columns_of(outcome) == IF outcome = "failed" THEN {} ELSE Columns

\* app.py 207-210: both datasets are loaded.
InitMain ==
  /\ sheet \in Sheets
  /\ arg \in [df_sp : LoadOutcomes, df_berita : LoadOutcomes]
  /\ (arg.df_sp = "rows") = (sheet # <<>>)
  /\ df = sheet
  /\ op = "main"
  /\ ret = <<>>
  /\ cache = NoCache

\* app.py 212-214
MainBothEmpty ==
  /\ op = "main"
  /\ df = <<>> /\ df_berita(arg.df_berita) = <<>>
  /\ op' = "returned"
  /\ UNCHANGED <<sheet, df, arg, ret, cache>>

\* app.py 216-220: df_sp.columns[0] and the three columns after it.
MainColumnDefs ==
  /\ op = "main"
  /\ ~(df = <<>> /\ df_berita(arg.df_berita) = <<>>)
  /\ op' = IF columns_of(arg.df_sp) = {} THEN "IndexError" ELSE "columns"
  /\ UNCHANGED <<sheet, df, arg, ret, cache>>

\* app.py 222-228
MainDates ==
  /\ op = "columns"
  /\ df' = to_datetime_col(df)
  /\ op' = IF \A i \in DOMAIN df' : df'[i].publikasi.dtype = "NaT"
           THEN "stopped" ELSE "dates"
  /\ UNCHANGED <<sheet, arg, ret, cache>>

\* app.py 231: create_advanced_filters(df_sp)
MainFiltersSp ==
  /\ op = "dates"
  /\ LET r == create_advanced_filters(df, columns_of(arg.df_sp), TRUE)
     IN /\ op' = IF r.status = "returned" THEN "filtered_df_sp" ELSE r.status
        /\ ret' = r
  /\ UNCHANGED <<sheet, df, arg, cache>>

\* app.py 232: create_advanced_filters(df_berita), and the tabs after it.
MainFiltersBerita ==
  /\ op = "filtered_df_sp"
  /\ LET r == create_advanced_filters(df_berita(arg.df_berita),
                                      columns_of(arg.df_berita), FALSE)
     IN /\ op' = IF r.status = "returned" THEN "tabs" ELSE r.status
        /\ ret' = r
  /\ UNCHANGED <<sheet, df, arg, cache>>

NextMain ==
  \/ MainBothEmpty
  \/ MainColumnDefs
  \/ MainDates
  \/ MainFiltersSp
  \/ MainFiltersBerita

SpecMain == InitMain /\ [][NextMain]_vars

\* ------------------------------------------------------------------ ranking
\* Tables for the ranking: one title, two weeks, and among the entity cells
\* one with eleven names and one with a '##' piece.
RankRows ==
  [title : {<<"T", "1">>},
   narasumber : {ManyNames(1), <<"B", ";", "A">>, <<" ", "A", ";", ";", "A">>,
                 <<"#", "#", ";", "A">>},
   publikasi : {Str(2024, 1, 1, 0), Str(2024, 1, 8, 0)}]

InitRank ==
  /\ sheet \in UNION {[1..n -> RankRows] : n \in 0..MaxRows}
  /\ df = sheet
  /\ op = "loaded"
  /\ arg = <<>>
  /\ ret = <<>>
  /\ cache = NoCache

\* DataProcessor(df).aggregate_entities(column_name, top_n, min_count)
CallAggregateEntities ==
  /\ op = "loaded"
  /\ \E column_name \in {"narasumber", "missing"}, top_n \in {1, 2, TopK},
        min_count \in {1, 2} :
       \E r \in aggregate_entities(df, column_name, top_n, min_count) :
          /\ op' = "aggregate_entities"
          /\ arg' = [column_name |-> column_name, top_n |-> top_n,
                     min_count |-> min_count]
          /\ ret' = r
          /\ cache' = [cache EXCEPT !.process_column =
                         process_column_cached(@, df, column_name, ";").entries]
  /\ UNCHANGED <<sheet, df>>

NextRank == CallTrend \/ CallAggregateEntities

SpecRank == InitRank /\ [][NextRank]_vars

\* ------------------------------------------------------------------ columns
\* Tables with rows for the column checks, as loaded or with the date column
\* converted.
ColumnRows ==
  [title : Titles, narasumber : {<<"B", ";", "A">>},
   publikasi : {Str(0, 0, 0, 0), Str(2024, 1, 1, 0), Str(2024, 1, 8, 0)}]

\* Filter entries on a column of the table and on one that is not there.
FilterEntries ==
  {ValueList("title", {<<"T", "1">>}), ValueList("missing", {<<"T", "1">>}),
   DateRange("publikasi", 0, 2), DateRange("missing", 0, 2)}

\* Dicts of at most two entries: no column twice.
FilterDicts ==
  {<<>>} \cup {<<e>> : e \in FilterEntries}
    \cup {<<p[1], p[2]>> :
            p \in {q \in FilterEntries \X FilterEntries : q[1].column # q[2].column}}

InitColumn ==
  /\ sheet \in UNION {[1..n -> ColumnRows] : n \in 1..MaxRows}
  /\ df \in {sheet, to_datetime_col(sheet)}
  /\ op = "loaded"
  /\ arg = <<>>
  /\ ret = <<>>
  /\ cache = NoCache

\* DataProcessor(df).process_column(column_name, separator)
CallProcessColumn ==
  /\ op = "loaded"
  /\ \E column_name \in {"narasumber", "title", "missing"} :
       /\ op' = "process_column"
       /\ arg' = [columns |-> {column_name}]
       /\ LET r == process_column_cached(cache.process_column, df, column_name, ";")
          IN /\ ret' = r.out
             /\ cache' = [cache EXCEPT !.process_column = r.entries]
  /\ UNCHANGED <<sheet, df>>

\* DataFilterManager(df).apply_filters(filters)
CallApplyFilters ==
  /\ op = "loaded"
  /\ \E filters \in FilterDicts :
       /\ op' = "apply_filters"
       /\ arg' = [columns |-> {filters[i].column : i \in DOMAIN filters}]
       /\ ret' = apply_filters(df, filters)
  /\ UNCHANGED <<sheet, df>>
  /\ UNCHANGED cache

NextColumn == CallApplyFilters \/ CallProcessColumn

SpecColumn == InitColumn /\ [][NextColumn]_vars

\* ------------------------------------------------------------------ splitter
InitSplit ==
  /\ sheet = <<>> /\ df = <<>>
  /\ op = "none"
  /\ arg \in Strings(MaxLen) \cup {Null}
  /\ ret = <<>>
  /\ cache = NoCache

ApplyRowEntities ==
  /\ op = "none"
  /\ op' = "row_entities"
  /\ ret' = row_entities(arg)
  /\ UNCHANGED <<sheet, df, arg>>
  /\ UNCHANGED cache

ApplySplitAndClean ==
  /\ op = "none"
  /\ op' = "split_and_clean"
  /\ ret' = split_and_clean(arg, ";")
  /\ UNCHANGED <<sheet, df, arg>>
  /\ UNCHANGED cache

NextSplit == ApplyRowEntities \/ ApplySplitAndClean

SpecSplit == InitSplit /\ [][NextSplit]_vars

\* ------------------------------------------------------------------ bucketing
InitWeek ==
  /\ sheet = <<>> /\ df = <<>>
  /\ op = "none"
  /\ arg \in {Ts(day, tod) : day \in 0..MaxDay, tod \in {0, 1}}
  /\ ret = <<>>
  /\ cache = NoCache

ApplyWeekStart ==
  /\ op = "none"
  /\ op' = "get_week_start"
  /\ ret' = get_week_start(arg)
  /\ UNCHANGED <<sheet, df, arg>>
  /\ UNCHANGED cache

\* get_week_start applied to its own result.
ApplyWeekStartAgain ==
  /\ op = "get_week_start"
  /\ op' = "get_week_start2"
  /\ arg' = ret
  /\ UNCHANGED <<sheet, df>>
  /\ ret' = get_week_start(ret)
  /\ UNCHANGED cache

\* weekly_counts['Minggu'].apply(get_week_range): the label of a week start.
ApplyWeekRange ==
  /\ op = "get_week_start"
  /\ op' = "get_week_range"
  /\ arg' = ret
  /\ UNCHANGED <<sheet, df>>
  /\ ret' = get_week_range(ret)
  /\ UNCHANGED cache

NextWeek == ApplyWeekStart \/ ApplyWeekStartAgain \/ ApplyWeekRange

SpecWeek == InitWeek /\ [][NextWeek]_vars

\* ------------------------------------------------------------------ loader
\* What load_dataset meets on its way: the secrets, the name asked for, the
\* spreadsheet and worksheet, and a worksheet with or without any row (the
\* header row counted).
Environments ==
  [secrets : BOOLEAN,
   dataset_name : {"DATASET SP", "DATASET BERITA", "DATASET X"},
   opens : BOOLEAN,
   blank : BOOLEAN]

dataset_map == {"DATASET SP", "DATASET BERITA"}

\* A table as load_dataset returns it: its columns and its rows.
Table(columns, rows) == [columns |-> columns, rows |-> rows]

\* pd.DataFrame()
DataFrame == Table({}, <<>>)

\* data_loader.py 17-64: the body of the try.  data is what
\* worksheet.get_all_values() gives: the header row and the rows below it.
load_dataset_body(env, data) ==
  IF ~env.secrets THEN Raised("KeyError")
  ELSE IF env.dataset_name \notin dataset_map THEN Raised("ValueError")
  ELSE IF ~env.opens THEN Raised("APIError")
  ELSE IF data = <<>> THEN Raised("IndexError")
  ELSE Returned(Table(Head(data), Tail(data)))

\* The try without its except.
load_dataset_uncaught(env, data) == load_dataset_body(env, data)

\* data_loader.py 6-68: every Exception of the body is reported with
\* st.error and answered with pd.DataFrame().
load_dataset(env, data) ==
  LET body == load_dataset_body(env, data)
  IN IF body.status # "returned" THEN Returned(DataFrame) ELSE body

InitLoad ==
  /\ sheet \in Sheets
  /\ df = <<>>
  /\ op = "none"
  /\ arg \in Environments
  /\ ret = <<>>
  /\ cache = NoCache

\* worksheet.get_all_values() of the environment
get_all_values == IF arg.blank THEN <<>> ELSE <<Columns>> \o sheet

CallLoadDataset ==
  /\ op = "none"
  /\ op' = "load_dataset"
  /\ ret' = load_dataset(arg, get_all_values)
  /\ df' = IF ret'.status = "returned" THEN ret'.out.rows ELSE df
  /\ UNCHANGED <<sheet, arg>>
  /\ UNCHANGED cache

SpecLoad == InitLoad /\ [][CallLoadDataset]_vars

\* ------------------------------------------------------------------ caches
\* Tables for the caches: one title, one date, two entity cells.
CacheRows ==
  [title : {<<"T", "1">>},
   narasumber : {<<"B", ";", "A">>, <<" ", "A", ";", ";", "A">>},
   publikasi : {Str(2024, 1, 1, 0)}]

CacheSheets == UNION {[1..n -> CacheRows] : n \in 0..MaxRows}

\* data_processor.py 167-179 without the decorator: None for an empty table,
\* otherwise a DataProcessor of the rows loaded.
load_and_process_dataset(env, data) ==
  LET loaded == load_dataset(env, data).out
  IN IF loaded.rows = <<>> THEN [status |-> "None"]
     ELSE [status |-> "DataProcessor", df |-> loaded.rows]

\* data_processor.py 156-167: @cached_data_loader, an lru_cache without
\* bound keyed by dataset_name alone.
load_and_process_dataset_cached(entries, env, data) ==
  LET key == env.dataset_name
      value == load_and_process_dataset(env, data)
  IN IF cache_hit(entries, key)
     THEN [out |-> cache_get(entries, key), entries |-> entries]
     ELSE [out |-> value, entries |-> cache_put(entries, key, value)]

\* processor = DataProcessor(df) of a table with rows.
InitCache ==
  /\ sheet \in CacheSheets
  /\ df \in CacheSheets \ {<<>>}
  /\ op = "DataProcessor"
  /\ arg = <<>>
  /\ ret = <<>>
  /\ cache = NoCache

\* processor.process_column(column_name), at any time.
CachedProcessColumn ==
  /\ \E column_name \in {"narasumber", "title"} :
       LET r == process_column_cached(cache.process_column, df, column_name, ";")
       IN /\ op' = "process_column"
          /\ arg' = [columns |-> {column_name}]
          /\ ret' = r.out
          /\ cache' = [cache EXCEPT !.process_column = r.entries]
  /\ UNCHANGED <<sheet, df>>

\* processor.df is modified: an entity cell is assigned.
ModifyDf ==
  /\ \E i \in DOMAIN df, cell \in {row.narasumber : row \in CacheRows} :
       /\ cell # df[i].narasumber
       /\ df' = [df EXCEPT ![i].narasumber = cell]
  /\ op' = "df_modified"
  /\ arg' = <<>>
  /\ ret' = <<>>
  /\ UNCHANGED <<sheet, cache>>

\* data_processor.py 99-100: time_series_analysis converts the date column of
\* processor.df in place.
TimeSeriesAnalysis ==
  /\ df # to_datetime_col(df)
  /\ df' = to_datetime_col(df)
  /\ op' = "time_series_analysis"
  /\ arg' = <<>>
  /\ ret' = <<>>
  /\ UNCHANGED <<sheet, cache>>

\* The remote worksheet changes.
RemoteChange ==
  /\ sheet' \in CacheSheets \ {sheet}
  /\ op' = "sheet_changed"
  /\ arg' = <<>>
  /\ ret' = <<>>
  /\ UNCHANGED <<df, cache>>

\* load_and_process_dataset("DATASET SP"), the retrieval working or failing.
CallLoadAndProcess ==
  /\ \E opens \in BOOLEAN :
       LET env == [secrets |-> TRUE, dataset_name |-> "DATASET SP",
                   opens |-> opens, blank |-> FALSE]
           r == load_and_process_dataset_cached(cache.load_and_process_dataset,
                                                env, <<Columns>> \o sheet)
       IN /\ op' = "load_and_process_dataset"
          /\ arg' = env
          /\ ret' = r.out
          /\ cache' = [cache EXCEPT !.load_and_process_dataset = r.entries]
  /\ UNCHANGED <<sheet, df>>

NextCache ==
  \/ CachedProcessColumn
  \/ ModifyDf
  \/ TimeSeriesAnalysis
  \/ RemoteChange
  \/ CallLoadAndProcess

SpecCache == InitCache /\ [][NextCache]_vars

\* ------------------------------------------------------------------ C4
\* The pieces of a text, stated by position: a span lies between two
\* neighbouring delimiters (or an end of the text); the piece of a span runs
\* from its first to its last character that is not a space, and a span of
\* spaces only has no piece.
Ends(s) == {0, Len(s) + 1} \cup {j \in 1..Len(s) : s[j] = ";"}
Spans(s) ==
  {sp \in Ends(s) \X Ends(s) :
     sp[1] < sp[2] /\ \A j \in (sp[1] + 1)..(sp[2] - 1) : s[j] # ";"}
Ink(s, sp) == {i \in (sp[1] + 1)..(sp[2] - 1) : s[i] # " "}
KeptSpans(s) == {sp \in Spans(s) : Ink(s, sp) # {}}
Text(s, sp) ==
  LET ink == Ink(s, sp)
      lo == CHOOSE i \in ink : \A k \in ink : i <= k
      hi == CHOOSE i \in ink : \A k \in ink : i >= k
  IN SubSeq(s, lo, hi)
NthSpan(s, n) ==
  CHOOSE sp \in KeptSpans(s) : Cardinality({t \in KeptSpans(s) : t[1] < sp[1]}) = n - 1
Pieces(s) == [n \in 1..Cardinality(KeptSpans(s)) |-> Text(s, NthSpan(s, n))]
PiecesOf(cell) == IF cell = Null THEN <<>> ELSE Pieces(cell)
\* How many pieces a cell has.
NumPieces(cell) == IF cell = Null THEN 0 ELSE Cardinality(KeptSpans(cell))
Unmarked(piece) == ~HasMarker(piece)

\* C4 as stated: both splitters return exactly the trimmed non-empty pieces
\* of the cell, in input order, and nothing for a null cell.
C4_AsStated ==
  op \in {"row_entities", "split_and_clean"} => ret = PiecesOf(arg)

\* C4 amended: the trend's splitter returns exactly the trimmed non-empty
\* pieces in input order (duplicates and case kept, nothing for a null cell);
\* DataProcessor's split_and_clean returns those pieces without the ones that
\* contain '##'.
C4_Splitter ==
  /\ op = "row_entities" => ret = PiecesOf(arg)
  /\ op = "split_and_clean" => ret = SelectSeq(PiecesOf(arg), Unmarked)

\* A cell with an empty piece dropped and a duplicate kept by the trend's
\* splitter.
C4_Witness ==
  /\ op = "row_entities"
  /\ Len(ret) = 2 /\ ret[1] = ret[2]
  /\ Len(split(arg, ";")) > 2

\* ------------------------------------------------------------------ C1
\* The trend that ran last, standing alone or inside main.
TrendRan == op \in {"create_sources_trend_analysis", "tab1"}
TrendOut == IF op = "tab1" THEN ret.trend ELSE ret
TrendRows == IF TrendOut.status = "rendered" THEN TrendOut.weekly_counts ELSE {}

RECURSIVE SumSeq(_)
SumSeq(q) == IF q = <<>> THEN 0 ELSE Head(q) + SumSeq(Tail(q))

\* The rows of the table the trend was given.
Input ==
  IF op = "create_sources_trend_analysis" /\ arg.columns = {} THEN <<>> ELSE sheet

\* The rows the selection lets through, and those of them whose date cell is
\* a date.
Selected(i) == arg.selected_sp \in {None, Semua} \/ sheet[i].title = arg.selected_sp
Dated(i) == to_datetime(sheet[i].publikasi).dtype = "ts"
Occurrences(i) == NumPieces(sheet[i].narasumber)

\* C1 as stated: the frequencies of the trend's rows add up to the number of
\* entity occurrences of every row of the input.
C1_AsStated ==
  TrendRan =>
    SumFrekuensi(TrendRows)
      = SumSeq([i \in DOMAIN Input |-> IF Selected(i) THEN Occurrences(i) ELSE 0])

\* C1 amended: they add up to the number of entity occurrences of the rows
\* whose date cell is a date.
C1_Conservation ==
  TrendRan =>
    SumFrekuensi(TrendRows)
      = SumSeq([i \in DOMAIN Input |->
                 IF Selected(i) /\ Dated(i) THEN Occurrences(i) ELSE 0])

\* A rendered trend of a table that has a row with entities and no date.
C1_Witness ==
  /\ TrendRan
  /\ TrendOut.status = "rendered"
  /\ Cardinality(TrendRows) > 1
  /\ \E i \in DOMAIN sheet : Selected(i) /\ ~Dated(i) /\ Occurrences(i) > 0

\* ------------------------------------------------------------------ C2
\* C2: in main, with the range [start_date, end_date] selected, every record
\* the trend counts has its date inside the range.
C2_TrendInRange ==
  op = "tab1" /\ ret.trend.status = "rendered" =>
    \A i \in DOMAIN ret.trend.records :
      /\ arg.start_date <= ret.trend.records[i].publikasi.day
      /\ ret.trend.records[i].publikasi.day <= arg.end_date

\* ------------------------------------------------------------------ C3
NoSurvivor == \A i \in DOMAIN Input : ~(Selected(i) /\ Dated(i) /\ Occurrences(i) > 0)

\* The outcome of a trend without data: a status of its own, and a warning
\* without metric, ranking or row when no row with a date and an entity is
\* left; a ranking that is rendered is never empty.
NoDataOutcome ==
  /\ TrendOut.status \in {"warning", "rendered"}
  /\ NoSurvivor =>
       /\ TrendOut.status = "warning"
       /\ TrendOut.message \in {"Tidak ada data untuk dianalisis",
                                 "Tidak ada narasumber yang ditemukan"}
       /\ DOMAIN TrendOut = {"status", "message"}
  /\ TrendOut.status = "rendered" => TrendOut.narasumber_counts # <<>>

\* C3: the trend never raises when no data is left (an empty table, no date
\* that parses, no entity): it ends with the warning, and the most frequent
\* entity is never looked up in an empty ranking.
C3_NoData == TrendRan => NoDataOutcome

\* The same of the tables that have their columns, with or without rows.
C3_NoDataWithColumns ==
  TrendRan /\ (op = "tab1" \/ arg.columns # {}) => NoDataOutcome

\* ------------------------------------------------------------------ C5
\* The rows the filter has to keep, by their place in the worksheet.
Kept ==
  {i \in DOMAIN sheet :
     /\ Dated(i)
     /\ arg.start_date <= to_datetime(sheet[i].publikasi).day
     /\ to_datetime(sheet[i].publikasi).day <= arg.end_date
     /\ arg.selected_title = Semua \/ sheet[i].title = arg.selected_title}
NthKept(n) == CHOOSE i \in Kept : Cardinality({j \in Kept : j < i}) = n - 1

\* C5: the filter returns exactly the rows whose date lies in
\* [start_date, end_date], the hour ignored, and whose title is the selected
\* one unless "Semua Siaran Pers" is selected.
C5_Filter ==
  op = "filter_dataframe" =>
    /\ Len(ret) = Cardinality(Kept)
    /\ \A n \in 1..Len(ret) :
         /\ ret[n].title = sheet[NthKept(n)].title
         /\ ret[n].narasumber = sheet[NthKept(n)].narasumber
         /\ ret[n].publikasi = to_datetime(sheet[NthKept(n)].publikasi)

\* A row with an hour on the last day of the range is kept while another row
\* is dropped, under a selected title.
C5_Witness ==
  /\ op = "filter_dataframe"
  /\ arg.selected_title # Semua
  /\ Len(ret) = 1 /\ Len(sheet) = 2
  /\ ret[1].publikasi.tod = 1 /\ ret[1].publikasi.day = arg.end_date

\* ------------------------------------------------------------------ C6
Days == {to_datetime(sheet[i].publikasi).day : i \in {j \in DOMAIN sheet : Dated(j)}}
FullSpan ==
  /\ op = "filter_dataframe"
  /\ arg.selected_title = Semua
  /\ Days # {}
  /\ \A n \in Days : arg.start_date <= n /\ n <= arg.end_date
  /\ arg.start_date \in Days /\ arg.end_date \in Days

\* C6 as stated: with the least and the greatest date of the column and
\* "Semua Siaran Pers" the filter returns every row of the table.
C6_AsStated == FullSpan => Len(ret) = Len(sheet) /\ ret = df

\* C6 amended: it does so when every date cell of the table is a date.
C6_NoOp ==
  FullSpan /\ (\A i \in DOMAIN sheet : Dated(i)) => Len(ret) = Len(sheet) /\ ret = df

\* Two rows of different dates and titles, both returned.
C6_Witness ==
  /\ FullSpan
  /\ Len(ret) = 2
  /\ ret[1].publikasi.day > ret[2].publikasi.day
  /\ ret[1].title # ret[2].title

\* ------------------------------------------------------------------ C7
\* Day of the week of a calendar date by Sakamoto's rule, Monday = 0.
SakamotoDow(y, m, d) ==
  LET t == <<0, 3, 2, 5, 0, 3, 5, 1, 4, 6, 2, 4>>
      yy == IF m < 3 THEN y - 1 ELSE y
  IN ((yy + yy \div 4 - yy \div 100 + yy \div 400 + t[m] + d) + 6) % 7
IsMonday(date) ==
  LET c == YMD(date.day) IN SakamotoDow(c.y, c.m, c.d) = 0

\* C7: get_week_start(d) is the Monday on or before d, at most 6 days
\* earlier, d itself when d is a Monday; applied to its own result it
\* returns that result.
C7_WeekStart ==
  /\ op = "get_week_start" =>
       /\ IsMonday(ret)
       /\ ret.day <= arg.day /\ arg.day - ret.day <= 6
       /\ ret.tod = arg.tod
       /\ IsMonday(arg) => ret = arg
  /\ op = "get_week_start2" => ret = arg

\* The second application, on the week start of 30 December 2024 with an
\* hour.
C7_Witness ==
  /\ op = "get_week_start2"
  /\ IsMonday(arg) /\ arg.tod = 1
  /\ ret.day = 364

\* ------------------------------------------------------------------ C8
LabelOf(day, endday, m, y) ==
  Decimal(day) \o <<"-">> \o Decimal(endday) \o <<" ">> \o <<MonthName(m)>>
    \o <<" ">> \o Decimal(y)

\* C8 as stated: the label is "{day}-{day+6} {MonthName} {Year}" of the
\* week start.
C8_AsStated ==
  op = "get_week_range" =>
    LET c == YMD(arg.day) IN ret = LabelOf(c.d, c.d + 6, c.m, c.y)

\* C8 amended: the second number is the day of month of the week's last day:
\* day+6 when that is still in the week start's month, otherwise day+6 less
\* the length of that month; month name and year are the week start's.
C8_WeekLabel ==
  op = "get_week_range" =>
    LET c == YMD(arg.day)
        last == IF c.d + 6 <= DaysInMonth(c.y, c.m) THEN c.d + 6
                ELSE c.d + 6 - DaysInMonth(c.y, c.m)
    IN ret = LabelOf(c.d, last, c.m, c.y)

\* The label of the week of 30 December 2024, which ends in January 2025.
C8_Witness ==
  /\ op = "get_week_range"
  /\ YMD(arg.day).y = 2024 /\ YMD(arg.day + 6).y = 2025
  /\ ret = <<"3", "0", "-", "5", " ", "December", " ", "2", "0", "2", "4">>

\* ------------------------------------------------------------------ C9
\* How often each entity occurs in the cell of a row, from the pieces stated
\* by position; marked tells whether pieces that contain '##' count.
RowBag(i, marked) ==
  LET cell == sheet[i].narasumber
      spans == IF cell = Null THEN {} ELSE KeptSpans(cell)
      counted == {sp \in spans : marked \/ ~HasMarker(Text(cell, sp))}
  IN {[row |-> i, Narasumber |-> e,
       Frekuensi |-> Cardinality({sp \in counted : Text(cell, sp) = e})]
        : e \in {Text(cell, sp) : sp \in counted}}

\* The total of each entity over a set of rows.
Totals(rows, marked) ==
  LET entries == UNION {RowBag(i, marked) : i \in rows}
  IN {[Narasumber |-> e,
       Frekuensi |-> SumFrekuensi({x \in entries : x.Narasumber = e})]
        : e \in {x.Narasumber : x \in entries}}

Least(a, b) == IF a < b THEN a ELSE b

\* top is a choice of the k entities of greatest total: k of them (all when
\* there are fewer), each once and with its total, in descending order, and
\* no entity left out has a greater total than one taken.
IsTopK(top, k, totals) ==
  /\ Len(top) = Least(k, Cardinality(totals))
  /\ \A n \in DOMAIN top :
       /\ top[n] \in totals
       /\ \A m \in 1..(n - 1) :
            /\ top[m].Narasumber # top[n].Narasumber
            /\ top[m].Frekuensi >= top[n].Frekuensi
       /\ \A x \in totals :
            x.Narasumber \notin Index(top) => x.Frekuensi <= top[n].Frekuensi

\* The trend: the ranking holds every entity by its total over all weeks, the
\* top sources are its first ten, and the rows plotted are the rows of the
\* weekly table of those entities.
TrendTopK ==
  op = "create_sources_trend_analysis" /\ ret.status = "rendered" =>
    LET totals == Totals({i \in DOMAIN sheet : Selected(i) /\ Dated(i)}, TRUE)
    IN /\ IsTopK(ret.narasumber_counts, Cardinality(totals), totals)
       /\ IsTopK(ret.top_sources, TopK, totals)
       /\ ret.top_sources = SubSeq(ret.narasumber_counts, 1, Len(ret.top_sources))
       /\ ret.plot_data
            = {r \in ret.weekly_counts : r.Narasumber \in Index(ret.top_sources)}

\* The totals aggregate_entities ranks, as the claim has them and as the code
\* has them: without the pieces that contain '##' and without the entities
\* that occur less than min_count times.
AggregateTotals == Totals(DOMAIN sheet, TRUE)
AggregateTotalsCounted ==
  {x \in Totals(DOMAIN sheet, FALSE) : x.Frekuensi >= arg.min_count}
AggregateReturned == op = "aggregate_entities" /\ ret.status = "returned"

\* C9 as stated: the selection is the first K of all entities ranked by
\* total frequency, all of them when K is at least their number; the rows
\* plotted are those of the top-K entities.
C9_AsStated ==
  /\ TrendTopK
  /\ AggregateReturned => IsTopK(ret.out, arg.top_n, AggregateTotals)

\* C9 amended: so it is in the trend; aggregate_entities ranks only the
\* entities that occur at least min_count times, counted over the pieces
\* that do not contain '##'.
C9_TopK ==
  /\ TrendTopK
  /\ AggregateReturned => IsTopK(ret.out, arg.top_n, AggregateTotalsCounted)

\* A trend of more than ten entities: rows of the weekly table are left out
\* of the plot.
C9_Witness ==
  /\ op = "create_sources_trend_analysis" /\ ret.status = "rendered"
  /\ Len(ret.narasumber_counts) > TopK
  /\ Len(ret.top_sources) = TopK
  /\ ret.plot_data # ret.weekly_counts
  /\ Len(sheet) = 2

\* ------------------------------------------------------------------ C10
\* C10: a call that names a column the table does not have fails and returns
\* nothing.
C10_MissingColumnFails ==
  op \in {"process_column", "apply_filters"} /\ arg.columns \ Columns # {} =>
    ret.status # "returned"

\* ------------------------------------------------------------------ C11
\* The retrieval fails: no credentials, a name that is not in the map, a
\* spreadsheet or worksheet that does not open, a worksheet without any row.
RetrievalFails ==
  ~arg.secrets \/ arg.dataset_name \notin dataset_map \/ ~arg.opens \/ arg.blank

\* C11: on every retrieval failure load_dataset raises nothing and returns
\* an empty table; otherwise it returns the rows of the worksheet under its
\* header.
C11_EmptyOnFailure ==
  op = "load_dataset" =>
    /\ ret.status = "returned"
    /\ RetrievalFails => ret.out.rows = <<>> /\ ret.out.columns = {}
    /\ ~RetrievalFails => ret.out = Table(Columns, sheet)

\* A worksheet without any row, everything else in order.
C11_Witness ==
  /\ op = "load_dataset"
  /\ arg.secrets /\ arg.opens /\ arg.blank /\ arg.dataset_name = "DATASET SP"
  /\ ret = Returned(DataFrame)

\* ------------------------------------------------------------------ C12
\* The rows of the input the trend counts, and how often an entity occurs in
\* those of them that a test of the date lets through.
Counted == {i \in DOMAIN Input : Selected(i) /\ Dated(i)}
OccurrencesIn(entity, InWeek(_)) ==
  SumFrekuensi({x \in UNION {RowBag(i, TRUE) : i \in {j \in Counted : InWeek(j)}} :
                  x.Narasumber = entity})

\* C12: every row of the weekly table has a frequency of at least 1, equal
\* to the number of occurrences of its entity in the records whose date lies
\* in its week, and no entity has two rows for one week.
C12_WeeklyFrequency ==
  TrendRan =>
    /\ \A r \in TrendRows :
         LET SameWeek(i) ==
               get_week_start(to_datetime(sheet[i].publikasi)).day = r.Minggu.day
         IN r.Frekuensi >= 1 /\ r.Frekuensi = OccurrencesIn(r.Narasumber, SameWeek)
    /\ \A r, q \in TrendRows :
         r.Narasumber = q.Narasumber /\ r.Minggu.day = q.Minggu.day => r = q

\* The same with the week start taken as the code groups by it, the time of
\* day of the record included.
C12_PerTimestamp ==
  TrendRan =>
    /\ \A r \in TrendRows :
         LET SameStart(i) == get_week_start(to_datetime(sheet[i].publikasi)) = r.Minggu
         IN r.Frekuensi >= 1 /\ r.Frekuensi = OccurrencesIn(r.Narasumber, SameStart)
    /\ \A r, q \in TrendRows :
         r.Narasumber = q.Narasumber /\ r.Minggu = q.Minggu => r = q

\* ------------------------------------------------------------------ C13
\* The rows of the input whose date cell is null or no date.
Undated == {i \in DOMAIN Input : ~Dated(i)}

\* C13: a record without a date is in no row of the weekly table and is let
\* through by the filter for no range; the other records are aggregated and
\* filtered as they are without it.
C13_UndatedExcluded ==
  /\ op = "create_sources_trend_analysis" /\ arg.columns # {} =>
       /\ ret.status \in {"warning", "rendered"}
       /\ ret.status = "warning" <=> \A i \in Counted : Occurrences(i) = 0
       /\ \A r \in TrendRows :
            LET SameStart(i) ==
                  get_week_start(to_datetime(sheet[i].publikasi)) = r.Minggu
            IN /\ r.Minggu.dtype = "ts"
               /\ r.Frekuensi = OccurrencesIn(r.Narasumber, SameStart)
  /\ op = "filter_dataframe" =>
       /\ \A n \in DOMAIN ret : ret[n].publikasi.dtype = "ts"
       /\ Len(ret) = Cardinality(Kept)
       /\ Kept \cap Undated = {}

\* A table of a record without a date and a record with one, both with
\* entities: the trend is rendered, or the filter returns the dated record.
C13_Witness ==
  /\ Len(sheet) = 2
  /\ Cardinality(Undated) = 1
  /\ \A i \in DOMAIN sheet : Occurrences(i) > 0
  /\ \/ op = "create_sources_trend_analysis" /\ ret.status = "rendered"
     \/ op = "filter_dataframe" /\ Len(ret) = 1

\* ------------------------------------------------------------------ C14
\* Where an entity is first seen in the records the trend counts: the row,
\* and the place in the row's cell.
FirstRow(entity) ==
  CHOOSE i \in Counted :
    /\ \E x \in RowBag(i, TRUE) : x.Narasumber = entity
    /\ \A j \in Counted : j < i => \A x \in RowBag(j, TRUE) : x.Narasumber # entity
FirstPlace(entity) ==
  LET cell == sheet[FirstRow(entity)].narasumber
      at == {sp[1] : sp \in {t \in KeptSpans(cell) : Text(cell, t) = entity}}
  IN CHOOSE k \in at : \A l \in at : k <= l
SeenBefore(a, b) ==
  \/ FirstRow(a) < FirstRow(b)
  \/ FirstRow(a) = FirstRow(b) /\ FirstPlace(a) < FirstPlace(b)

TrendRendered == op = "create_sources_trend_analysis" /\ ret.status = "rendered"

\* C14 as stated: of two entities of equal total the one first seen in the
\* records comes first in the ranking.
C14_AsStated ==
  TrendRendered =>
    \A m, n \in DOMAIN ret.top_sources :
      m < n /\ ret.top_sources[m].Frekuensi = ret.top_sources[n].Frekuensi =>
        SeenBefore(ret.top_sources[m].Narasumber, ret.top_sources[n].Narasumber)

\* C14 amended: the ranking is ordered by total only, greatest first, each
\* entity once; among equal totals the order is not that of first
\* appearance.
C14_TieOrder ==
  TrendRendered =>
    /\ \A m, n \in DOMAIN ret.narasumber_counts :
         m < n =>
           /\ ret.narasumber_counts[m].Frekuensi >= ret.narasumber_counts[n].Frekuensi
           /\ ret.narasumber_counts[m].Narasumber # ret.narasumber_counts[n].Narasumber
    /\ \A m \in DOMAIN ret.top_sources : ret.top_sources[m] = ret.narasumber_counts[m]

\* The record "B;A" alone: A is ranked before B, which was seen first.
C14_Witness ==
  /\ TrendRendered
  /\ Len(sheet) = 1 /\ sheet[1].narasumber = <<"B", ";", "A">>
  /\ ret.top_sources[1].Narasumber = <<"A">>
  /\ ret.top_sources[2].Narasumber = <<"B">>
  /\ ret.top_sources[1].Frekuensi = ret.top_sources[2].Frekuensi

\* ------------------------------------------------------------------ C15
FilterOrTrendRan == op \in {"filter_dataframe", "create_sources_trend_analysis"}

\* C15: after filter_dataframe or create_sources_trend_analysis has returned,
\* every cell of the caller's table is what it was before the call.
C15_NoMutation == FilterOrTrendRan => df = Input

\* What is left of it: the rows, their order, and every cell outside the
\* date column are unchanged, and a date cell is either unchanged or
\* converted.
C15_OnlyDateColumn ==
  FilterOrTrendRan =>
    /\ Len(df) = Len(Input)
    /\ \A i \in DOMAIN df :
         /\ df[i].title = sheet[i].title
         /\ df[i].narasumber = sheet[i].narasumber
         /\ df[i].publikasi \in {sheet[i].publikasi, to_datetime(sheet[i].publikasi)}

\* ------------------------------------------------------------------ C16
\* C16: in main the total-records metric of the trend is the number of
\* records that pass the filter of the selected dates and title, records
\* without entities included.
C16_TotalPostFilter ==
  op = "tab1" /\ ret.trend.status = "rendered" =>
    ret.trend.total_siaran_pers = Len(ret.df_sp_filtered)

\* What the metric is: the number of records of the selected title that have
\* a date, whatever the selected dates, records without entities included.
C16_TotalOfTitle ==
  TrendRan /\ TrendOut.status = "rendered" =>
    TrendOut.total_siaran_pers = Cardinality(Counted)

\* ------------------------------------------------------------------ C17
\* C17: a cached call returns what the call computes from the table as it is
\* now: process_column from processor.df, load_and_process_dataset from the
\* worksheet and the outcome of the retrieval.
C17_NeverStale ==
  /\ op = "process_column" =>
       ret = process_column(df, CHOOSE c \in arg.columns : TRUE, ";")
  /\ op = "load_and_process_dataset" =>
       ret = load_and_process_dataset(arg, <<Columns>> \o sheet)

\* ------------------------------------------------------------------ C18
\* C18: whatever the two loads gave, main returns after 'Gagal memuat data',
\* stops on the dates, or reaches the tabs: no step of it raises.
C18_MainNeverRaises ==
  op \in {"main", "returned", "columns", "stopped", "dates", "filtered_df_sp",
          "tabs"}

\* C18: no column of a table without columns is indexed.
C18_NoIndexError == op # "IndexError"

\* C18: the filter summary does not divide by a count of zero rows.
C18_NoZeroDivision == op # "ZeroDivisionError"
====
